---- MODULE Spec2Model ----
(***************************************************************************)
(* A state-machine model of aitk.algorithms.ga.GeneticAlgorithm.           *)
(*                                                                         *)
(* Chromosomes are Python lists, so they are objects with identity: the    *)
(* model keeps them in `heap` (object id -> gene sequence) and every       *)
(* attribute or local that holds a chromosome holds an object id.          *)
(* Probabilities are multiples of 1/ProbDen: pCrossover = 1 means          *)
(* pCrossover = 1/ProbDen, and a draw of random.random() is a value        *)
(* d/ProbDen with d in 0..ProbDen-1, i.e. a value of [0, 1).               *)
(* Object ids are names only: after every step the live objects are named   *)
(* 1, 2, ... in the order in which population, newPop, bestEver, parent1,  *)
(* parent2, child1, child2 and result first refer to them, so two          *)
(* references are aliases exactly when they hold the same id, and objects  *)
(* nothing refers to are gone.                                             *)
(* None is NoneRef for a chromosome, NoneNum for a number and <<>> for the *)
(* population and the score vector (popSize >= 1 keeps both non-empty once *)
(* they exist).                                                            *)
(***************************************************************************)
EXTENDS Integers, Sequences, FiniteSets, TLC

\* Bounds of the model.
MaxLength == 2          \* chromosome lengths 1..MaxLength
MaxPopSize == 2         \* population sizes 1..MaxPopSize
NumGenes == 2           \* gene values 0..NumGenes-1
MaxGenArg == 2          \* maxGen arguments 0..MaxGenArg
MaxEvals == 2           \* direct evaluatePopulation calls allowed while the history is shorter
ProbDen == 2            \* probabilities are k/ProbDen, k in 0..ProbDen
MaxCalls == 2           \* calls of evolve, evaluatePopulation, oneGeneration on one engine

NoneRef == 0
NoneNum == 0 - 1

Genes == 0 .. (NumGenes - 1)
Probs == 0 .. ProbDen
Draws == 0 .. (ProbDen - 1)
FitnessKinds == {"ones", "zero", "none"}
GeneKinds == {"bits", "none"}

VARIABLES
    length, popSize,            \* constructor arguments
    fitId,                      \* which fitness() the subclass has: an override, or "none"
    geneId,                     \* which make_random_gene() the subclass has: "bits" or "none"
    maxGen, pCrossover, pMutation, pElite,
    generation,
    population, scores, totalFitness,
    bestEver, bestEverScore,
    bestList, avgList,
    heap,                       \* object id -> genes, for the live chromosome objects
    epc,                        \* position inside evolve: "none" when no evolve call is running
    ipc,                        \* position inside initializePopulation: "none" when not running
    gpc,                        \* position inside oneGeneration: "none" when not running
    newPop, parent1, parent2, child1, child2, crossPoint,   \* locals of oneGeneration/crossover
    spins,                      \* the values drawn by the two selection() calls of the
                                \* running pair, <<>> once crossover has been called
    result,                     \* value returned by the last evolve call
    err,                        \* exception raised by the last call, "none" if it returned
    lastCall,                   \* name of the most recent public call    
    g0, transitions, doneSeen,  \* bookkeeping of the running evolve call
    mutated,                    \* positions at which the last mutation() called mutate_gene
    calls,                      \* calls of evolve, evaluatePopulation, oneGeneration so far
    maxObserved,                \* highest fitness evaluated since initializePopulation
    lastOp                      \* the last of initializePopulation, evaluatePopulation and
                                \* oneGeneration to have completed

vars == << length, popSize, fitId, geneId, maxGen, pCrossover, pMutation, pElite, generation,
           population, scores, totalFitness, bestEver, bestEverScore, bestList, avgList,
           heap, epc, ipc, gpc, newPop, parent1, parent2, child1, child2, crossPoint, spins,
           result, err, lastCall, g0, transitions, doneSeen, mutated, calls, maxObserved,
           lastOp >>

engineConfig == << length, popSize, fitId, geneId >>
evolveArgs == << maxGen, pCrossover, pMutation, pElite >>
evalState == << scores, totalFitness, bestEverScore, bestList, avgList, maxObserved >>
genLocals == << newPop, parent1, parent2, child1, child2, crossPoint, spins, mutated >>
evolveBook == << g0, transitions, doneSeen >>
refs == << population, newPop, bestEver, parent1, parent2, child1, child2, result, heap >>

----------------------------------------------------------------------------
\* Pure helpers.

RECURSIVE SumSeq(_)
SumSeq(s) == IF s = <<>> THEN 0 ELSE Head(s) + SumSeq(Tail(s))

RECURSIVE MaxSeq(_)
MaxSeq(s) == IF Len(s) = 1 THEN s[1]
             ELSE LET m == MaxSeq(Tail(s)) IN IF s[1] >= m THEN s[1] ELSE m

\* list.index(x): the first position holding x.
IndexOf(s, x) == CHOOSE i \in 1..Len(s) : s[i] = x /\ \A j \in 1..(i - 1) : s[j] # x

\* Python slices c[0:k] and c[k:] on 1-based sequences.
Prefix(c, k) == SubSeq(c, 1, k)
Suffix(c, k) == SubSeq(c, k + 1, Len(c))

\* The fitness() of the subclass: the override "ones" counts the genes equal
\* to 1 and the override "zero" scores every chromosome 0, both deterministic and
\* non-negative; "none" is the base method, whose body is `pass`: it returns None.
Fitness(fid, c) ==
    IF fid = "ones" THEN Cardinality({ i \in 1..Len(c) : c[i] = 1 })
    ELSE IF fid = "zero" THEN 0
    ELSE NoneNum

\* The values of make_random_gene(), and of mutate_gene(), which returns
\* make_random_gene(): the override draws a bit, the base method returns None.
GenePool(gid) == IF gid = "bits" THEN Genes ELSE {NoneNum}

\* max(scores) and `bestScore > self.bestEverScore` compare the scores: a score
\* of None raises TypeError in one or the other.
Scored(sc) == \A i \in 1..Len(sc) : sc[i] # NoneNum

\* sorted(..., key=score) compares the scores when there are two or more.
Sortable(sc) == Len(sc) <= 1 \/ Scored(sc)

----------------------------------------------------------------------------
\* The conditions and computations of the code, one operator each.

\* NeedsInit true only while no population has been built.
NeedsInitOnce(gen) == gen = 0 /\ population = <<>>

\* NeedsInit with the test lost: every evolve call initializes.
NeedsInitAlways(gen) == gen >= 0

\* evolve: `if self.generation == 0`.
NeedsInit(gen) == gen = 0

\* evolve: `while self.generation < self.maxGen and not self.isDone()`.
LoopContinues(gen, mg, done) == gen < mg /\ ~done

\* IsBetter with `!=` for `>`.
IsBetterDiffers(bestScore, bestSoFar) == bestScore # bestSoFar

\* evaluatePopulation: `if bestScore > self.bestEverScore`.
IsBetter(bestScore, bestSoFar) == bestScore > bestSoFar

\* oneGeneration: `math.floor(self.pElite * self.popSize)`, pElite = pe/ProbDen.
EliteSize(pe, size) == (pe * size) \div ProbDen

\* oneGeneration: sorted(enumerate(scores), key=score, reverse=True).  Python's
\* sort is stable and reverse=True keeps the original order of equal keys, so
\* index i comes before index j iff its score is higher, or equal with i < j.
Before(sc, i, j) == sc[i] > sc[j] \/ (sc[i] = sc[j] /\ i < j)
Fittest(sc) ==
    [ r \in 1..Len(sc) |->
        CHOOSE i \in 1..Len(sc) :
            Cardinality({ j \in 1..Len(sc) : Before(sc, j, i) }) = r - 1 ]

\* oneGeneration: `while len(newPop) < self.popSize`.
PopNotFull(n, size) == n < size

\* Overshoot off by one: an overshoot of one is not corrected.
OvershootLate(n, size) == n > size + 1

\* oneGeneration: `if len(newPop) > self.popSize`.
Overshoot(n, size) == n > size

\* list.pop(i) on a 1-based sequence.
RemoveAt(s, i) == SubSeq(s, 1, i - 1) \o SubSeq(s, i + 1, Len(s))

\* selection: spin = random.random() * totalFitness is a real of [0, total).
\* The scores of the model are integers, so `partialSum > spin` depends on the
\* integer part of spin only: the draws are 0..total-1, and 0 when total = 0.
Spins(total) == IF total > 0 THEN 0 .. (total - 1) ELSE {0}

\* Walk with `>=` for `>` in the break test.
RECURSIVE WalkGe(_, _, _, _, _)
WalkGe(sc, size, spin, i, partialSum) ==
    LET p == partialSum + sc[i]
    IN  IF p >= spin \/ i = size THEN i ELSE WalkGe(sc, size, spin, i + 1, p)

\* SelectIndex without the walk: always the last index.
SelectLast(sc, size, spin) == size

\* selection: the for loop over range(popSize) with its break; i keeps the last
\* index when the loop runs to its end.
RECURSIVE Walk(_, _, _, _, _)
Walk(sc, size, spin, i, partialSum) ==
    LET p == partialSum + sc[i]
    IN  IF p > spin \/ i = size THEN i ELSE Walk(sc, size, spin, i + 1, p)
SelectIndex(sc, size, spin) == Walk(sc, size, spin, 1, 0)

\* DoCrossover with `<=` for `<`.
DoCrossoverLe(draw, pc) == draw <= pc

\* crossover: `if random.random() < self.pCrossover`.
DoCrossover(draw, pc) == draw < pc

\* crossover: random.randrange(1, self.length) draws from 1..length-1 and
\* raises ValueError when that range is empty.
CrossPoints(len) == 1 .. (len - 1)

\* crossover: the two children for cut point k.
Child1(a, b, k) == Prefix(a, k) \o Suffix(b, k)
Child2(a, b, k) == Prefix(b, k) \o Suffix(a, k)

\* MutateHere with `<=` for `<`.
MutateHereLe(draw, pm) == draw <= pm

\* mutation: `if random.random() < self.pMutation`.
MutateHere(draw, pm) == draw < pm

\* RetryEnds without the retry: the first value of mutate_gene is taken.
RetryEndsAtOnce(old, gene) == TRUE

\* mutation: the while loop ends only with a gene that differs from the old one.
RetryEnds(old, gene) == old # gene

\* mutation of chromosome c with one draw and one final mutate_gene value per position.
Mutant(c, draws, genes, pm) ==
    [ i \in 1..Len(c) |-> IF MutateHere(draws[i], pm) THEN genes[i] ELSE c[i] ]

----------------------------------------------------------------------------
\* The object store.

\* A new list object gets an id no object of h has.
Fresh(h) == Cardinality(DOMAIN h) + 1

\* Fresh2 naming the first new object again: the two new lists are one list.
FreshSame(h) == Cardinality(DOMAIN h) + 1

Fresh2(h) == Cardinality(DOMAIN h) + 2

\* The ids of s in order of first occurrence, None left out.
RECURSIVE FirstRefs(_, _)
FirstRefs(s, seen) ==
    IF s = <<>> THEN <<>>
    ELSE IF Head(s) = NoneRef \/ Head(s) \in seen THEN FirstRefs(Tail(s), seen)
    ELSE << Head(s) >> \o FirstRefs(Tail(s), seen \cup {Head(s)})

NameOf(order, o) == IF o = NoneRef THEN NoneRef ELSE CHOOSE n \in 1..Len(order) : order[n] = o

\* The references of the program become pop, np, be, ..., res over the heap h:
\* unreferenced objects are dropped and the others renamed in order of first
\* reference.
Store(pop, np, be, p1, p2, c1, c2, res, h) ==
    LET order == FirstRefs(pop \o np \o << be, p1, p2, c1, c2, res >>, {})
    IN  /\ population' = [ i \in 1..Len(pop) |-> NameOf(order, pop[i]) ]
        /\ newPop' = [ i \in 1..Len(np) |-> NameOf(order, np[i]) ]
        /\ bestEver' = NameOf(order, be)
        /\ parent1' = NameOf(order, p1)
        /\ parent2' = NameOf(order, p2)
        /\ child1' = NameOf(order, c1)
        /\ child2' = NameOf(order, c2)
        /\ result' = NameOf(order, res)
        /\ heap' = [ n \in 1..Len(order) |-> h[order[n]] ]

----------------------------------------------------------------------------
\* Construction: GeneticAlgorithm(length, popSize).  The attributes that
\* initializePopulation creates do not exist yet; they are modelled as None.

Init ==
    /\ length \in 1..MaxLength
    /\ popSize \in 1..MaxPopSize
    /\ fitId \in FitnessKinds
    /\ geneId \in GeneKinds
    /\ maxGen = NoneNum /\ pCrossover = NoneNum /\ pMutation = NoneNum /\ pElite = NoneNum
    /\ generation = 0
    /\ population = <<>> /\ scores = <<>> /\ totalFitness = NoneNum
    /\ bestEver = NoneRef /\ bestEverScore = 0
    /\ bestList = <<>> /\ avgList = <<>>
    /\ heap = << >>
    /\ epc = "none" /\ ipc = "none" /\ gpc = "none"
    /\ newPop = <<>> /\ parent1 = NoneRef /\ parent2 = NoneRef
    /\ child1 = NoneRef /\ child2 = NoneRef /\ crossPoint = 0 /\ spins = <<>>
    /\ result = NoneRef /\ err = "none" /\ lastCall = "none"
    /\ g0 = 0 /\ transitions = 0 /\ doneSeen = FALSE
    /\ mutated = {}
    /\ calls = 0
    /\ maxObserved = NoneNum
    /\ lastOp = "none"

Idle == epc = "none" /\ ipc = "none" /\ gpc = "none"

\* A public call starts: the previous call's outcome is forgotten.  result is
\* None or an alias of bestEver, so forgetting it drops no object.
CallEnter(name) ==
    /\ Idle
    /\ calls < MaxCalls
    /\ lastCall' = name
    /\ result' = NoneRef
    /\ g0' = generation /\ transitions' = 0 /\ doneSeen' = FALSE

\* The call does not raise in its first step.
CallStart(name) == CallEnter(name) /\ err' = "none"

\* The calls counted against MaxCalls: evolve, evaluatePopulation, oneGeneration.
Call(name) == CallStart(name) /\ calls' = calls + 1

Chromosomes == [ 1..length -> GenePool(geneId) ]

----------------------------------------------------------------------------
\* The bodies of the methods, shared by the direct calls and by evolve.

\* initializePopulation, lines 53-60: the run-scoped state is reset and the
\* population is the empty list; the old chromosome objects are dropped.
clearRunState ==
    /\ bestEverScore' = 0
    /\ scores' = <<>>
    /\ totalFitness' = NoneNum
    /\ bestList' = <<>>
    /\ avgList' = <<>>
    /\ maxObserved' = NoneNum
    /\ bestEver' = NoneRef
    /\ population' = <<>>
    /\ heap' = << >>
    /\ ipc' = "populate"
    /\ UNCHANGED lastOp

\* NewScores without line 81: the scores are appended to the old list.
NewScoresKept(old, fresh) == old \o fresh

\* evaluatePopulation, line 81 and the loop: the score vector is a new list.
NewScores(old, fresh) == fresh

\* evaluatePopulation.  The mean sum(scores)/float(popSize) is kept as the pair
\* <<sum, popSize>>.  No evolve call has returned since the running call
\* started, so result is None.
evaluatePopulation ==
    LET sc == NewScores(scores,
                  [ i \in 1..Len(population) |-> Fitness(fitId, heap[population[i]]) ])
        bestScore == MaxSeq(sc)
        best == population[IndexOf(sc, bestScore)]
        better == IsBetter(bestScore, bestEverScore)
        copy == Fresh(heap)
    IN  /\ Scored(sc)
        /\ scores' = sc
        /\ bestEverScore' = IF better THEN bestScore ELSE bestEverScore
        /\ totalFitness' = SumSeq(sc)
        /\ bestList' = Append(bestList, bestEverScore')
        /\ avgList' = Append(avgList, << SumSeq(sc), popSize >>)
        /\ maxObserved' = IF bestScore > maxObserved THEN bestScore ELSE maxObserved
        /\ lastOp' = "evaluatePopulation"
        /\ Store(population, newPop, IF better THEN copy ELSE bestEver,
                 parent1, parent2, child1, child2, NoneRef,
                 IF better THEN (copy :> heap[best]) @@ heap ELSE heap)

\* evaluatePopulation raises TypeError at line 84 or 86: self.scores holds the
\* new scores and nothing else has been assigned.
evaluateRaises ==
    LET sc == NewScores(scores,
                  [ i \in 1..Len(population) |-> Fitness(fitId, heap[population[i]]) ])
    IN  /\ ~Scored(sc)
        /\ scores' = sc
        /\ UNCHANGED << totalFitness, bestEverScore, bestList, avgList, maxObserved, lastOp,
                        population, newPop, bestEver, parent1, parent2, child1, child2, heap >>

\* oneGeneration, lines 165-171: the elite are appended to newPop as the
\* population's own objects.
elitism ==
    LET elite_size == EliteSize(pElite, popSize)
        fittest == Fittest(scores)
    IN  /\ newPop' = [ i \in 1..elite_size |-> population[fittest[i]] ]
        /\ gpc' = "while"

----------------------------------------------------------------------------
\* evolve(maxGen, pCrossover, pMutation, pElite)

EvolveCall(mg, pc, pm, pe) ==
    /\ Call("evolve")
    /\ maxGen' = mg /\ pCrossover' = pc /\ pMutation' = pm /\ pElite' = pe
    /\ IF NeedsInit(generation)
       THEN /\ clearRunState
            /\ epc' = "initialize"
       ELSE /\ epc' = "while"
            /\ UNCHANGED << evalState, population, bestEver, heap, ipc, lastOp >>
    /\ UNCHANGED << engineConfig, generation, gpc, genLocals >>

EvolveEvaluate ==
    /\ epc = "evaluate" /\ gpc = "none"
    /\ evaluatePopulation
    /\ epc' = "while"
    /\ UNCHANGED << engineConfig, evolveArgs, generation, ipc, gpc, crossPoint, spins, mutated,
                    err, calls, lastCall, evolveBook >>

\* evaluatePopulation raises inside evolve: the exception leaves evolve.
EvolveEvaluateRaise ==
    /\ epc = "evaluate" /\ gpc = "none"
    /\ evaluateRaises
    /\ err' = "TypeError"
    /\ epc' = "none"
    /\ UNCHANGED << engineConfig, evolveArgs, generation, ipc, gpc, crossPoint, spins, mutated,
                    calls, lastCall, evolveBook, result >>

\* The loop test is true: oneGeneration starts.  isDone() is the subclass's
\* predicate, modelled as any Boolean.
EvolveStep ==
    /\ epc = "while" /\ gpc = "none"
    /\ \E done \in BOOLEAN : LoopContinues(generation, maxGen, done)
    /\ scores # <<>> /\ Sortable(scores)
    /\ elitism
    /\ epc' = "generation"
    /\ UNCHANGED << engineConfig, lastOp, evolveArgs, generation, evalState, ipc, crossPoint, spins,
                    mutated, err, calls, lastCall, evolveBook, population, bestEver,
                    parent1, parent2, child1, child2, result, heap >>

\* The loop test is true and self.scores is None (initializePopulation was
\* called directly and nothing evaluated since) or holds two or more None:
\* enumerate(None), or the sort's comparison, raises TypeError.
EvolveStepRaise ==
    /\ epc = "while" /\ gpc = "none"
    /\ \E done \in BOOLEAN : LoopContinues(generation, maxGen, done)
    /\ scores = <<>> \/ ~Sortable(scores)
    /\ err' = "TypeError"
    /\ epc' = "none"
    /\ UNCHANGED << engineConfig, lastOp, lastCall, evolveArgs, generation, evalState, refs, ipc, gpc,
                    crossPoint, spins, mutated, calls, evolveBook >>

\* The loop test is false: evolve returns self.bestEver.
EvolveReturn ==
    /\ epc = "while" /\ gpc = "none"
    /\ \E done \in BOOLEAN :
          /\ ~LoopContinues(generation, maxGen, done)
          /\ doneSeen' = (generation < maxGen /\ done)
    /\ epc' = "none"
    /\ result' = bestEver
    /\ UNCHANGED << population, newPop, bestEver, parent1, parent2, child1, child2, heap >>
    /\ UNCHANGED << engineConfig, lastOp, lastCall, evolveArgs, generation, evalState, ipc, gpc, crossPoint, spins,
                    mutated, err, calls, g0, transitions >>

----------------------------------------------------------------------------
\* oneGeneration, step by step.  InEvolve tells the call made by evolve from a
\* direct call.

InEvolve == epc = "generation"

\* selection() twice: each returns a copy, a new list object.
GenSelect ==
    /\ gpc = "while"
    /\ PopNotFull(Len(newPop), popSize)
    /\ totalFitness # NoneNum
    /\ \E spin1 \in Spins(totalFitness), spin2 \in Spins(totalFitness) :
          LET i1 == SelectIndex(scores, popSize, spin1)
              i2 == SelectIndex(scores, popSize, spin2)
              o1 == Fresh(heap)
              o2 == Fresh2(heap)
          IN  /\ spins' = << spin1, spin2 >>
              /\ Store(population, newPop, bestEver, o1, o2, child1, child2, result,
                       (o1 :> heap[population[i1]]) @@ (o2 :> heap[population[i2]]) @@ heap)
    /\ gpc' = "crossover"
    /\ UNCHANGED << engineConfig, lastOp, evolveArgs, generation, evalState, epc, ipc, crossPoint,
                    mutated, err, calls, lastCall, evolveBook >>

\* selection raises TypeError out of random.random() * self.totalFitness when
\* totalFitness is None: the exception leaves oneGeneration, and evolve when
\* evolve made the call.
GenSelectRaise ==
    /\ gpc = "while"
    /\ PopNotFull(Len(newPop), popSize)
    /\ totalFitness = NoneNum
    /\ err' = "TypeError"
    /\ gpc' = "none" /\ epc' = "none"
    /\ Store(population, <<>>, bestEver, NoneRef, NoneRef, NoneRef, NoneRef, result, heap)
    /\ UNCHANGED << engineConfig, lastOp, lastCall, evolveArgs, generation, evalState, ipc,
                    crossPoint, spins, mutated, calls, evolveBook >>

\* crossover(parent1, parent2) returns: two new lists, or the parents
\* themselves.
GenCrossover ==
    /\ gpc = "crossover"
    /\ \E draw \in Draws :
          IF DoCrossover(draw, pCrossover)
          THEN \E k \in CrossPoints(length) :
                  LET o1 == Fresh(heap)
                      o2 == Fresh2(heap)
                  IN  /\ crossPoint' = k
                      /\ Store(population, newPop, bestEver, parent1, parent2, o1, o2, result,
                               (o1 :> Child1(heap[parent1], heap[parent2], k))
                               @@ (o2 :> Child2(heap[parent1], heap[parent2], k)) @@ heap)
          ELSE /\ crossPoint' = 0
               /\ Store(population, newPop, bestEver, parent1, parent2, parent1, parent2,
                        result, heap)
    /\ spins' = <<>>
    /\ gpc' = "mutation1"
    /\ UNCHANGED << engineConfig, lastOp, evolveArgs, generation, evalState, epc, ipc,
                    mutated, err, calls, lastCall, evolveBook >>

\* crossover raises ValueError out of random.randrange(1, length): the
\* exception leaves oneGeneration, and evolve when evolve made the call.
GenCrossoverRaise ==
    /\ gpc = "crossover"
    /\ \E draw \in Draws : DoCrossover(draw, pCrossover)
    /\ CrossPoints(length) = {}
    /\ err' = "ValueError"
    /\ gpc' = "none" /\ epc' = "none"
    /\ UNCHANGED lastCall
    /\ crossPoint' = 0 /\ spins' = <<>>
    /\ Store(population, <<>>, bestEver, NoneRef, NoneRef, NoneRef, NoneRef, result, heap)
    /\ UNCHANGED << engineConfig, lastOp, evolveArgs, generation, evalState, ipc,
                    mutated, calls, evolveBook >>

\* mutation(child), in place.  draws[i] is the draw for position i and genes[i]
\* the value of mutate_gene with which the retry loop ends there.
\* oneGeneration does not read parent1 and parent2 after the crossover call:
\* they are dropped here.
mutation(child) ==
    \E draws \in [ 1..length -> Draws ], genes \in [ 1..length -> GenePool(geneId) ] :
        /\ \A i \in 1..length :
              MutateHere(draws[i], pMutation) => RetryEnds(heap[child][i], genes[i])
        /\ \A i \in 1..length :
              ~MutateHere(draws[i], pMutation) => genes[i] = heap[child][i]
        /\ mutated' = { i \in 1..length : MutateHere(draws[i], pMutation) }
        /\ Store(population, newPop, bestEver, NoneRef, NoneRef, child1, child2, result,
                 [ heap EXCEPT ![child] = Mutant(heap[child], draws, genes, pMutation) ])

GenMutation1 ==
    /\ gpc = "mutation1"
    /\ mutation(child1)
    /\ gpc' = "mutation2"
    /\ UNCHANGED << engineConfig, lastOp, evolveArgs, generation, evalState, epc, ipc,
                    crossPoint, spins, err, calls, lastCall, evolveBook >>

GenMutation2 ==
    /\ gpc = "mutation2"
    /\ mutation(child2)
    /\ gpc' = "append"
    /\ UNCHANGED << engineConfig, lastOp, evolveArgs, generation, evalState, epc, ipc,
                    crossPoint, spins, err, calls, lastCall, evolveBook >>

\* newPop.append(child1); newPop.append(child2).  The locals are not read
\* again before the next selection assigns them.
GenAppend ==
    /\ gpc = "append"
    /\ Store(population, newPop \o << child1, child2 >>, bestEver,
             NoneRef, NoneRef, NoneRef, NoneRef, result, heap)
    /\ crossPoint' = 0 /\ mutated' = {} /\ UNCHANGED spins
    /\ gpc' = "while"
    /\ UNCHANGED << engineConfig, lastOp, evolveArgs, generation, evalState, epc, ipc,
                    err, calls, lastCall, evolveBook >>

\* Lines 189-192: the size correction, the replacement of the population and
\* the generation counter.
GenReplace ==
    /\ gpc = "while"
    /\ ~PopNotFull(Len(newPop), popSize)
    /\ IF Overshoot(Len(newPop), popSize)
       THEN \E i \in 1..Len(newPop) :
               Store(RemoveAt(newPop, i), <<>>, bestEver, parent1, parent2, child1, child2,
                     result, heap)
       ELSE Store(newPop, <<>>, bestEver, parent1, parent2, child1, child2, result, heap)
    /\ generation' = generation + 1
    /\ lastOp' = "oneGeneration"
    /\ gpc' = "none"
    /\ IF InEvolve
       THEN /\ epc' = "evaluate"
            /\ transitions' = transitions + 1
       ELSE /\ UNCHANGED << epc, transitions >>
    /\ UNCHANGED lastCall
    /\ UNCHANGED << engineConfig, evolveArgs, evalState, ipc, crossPoint, spins, mutated,
                    err, calls, g0, doneSeen >>

----------------------------------------------------------------------------
\* The other public operations, called directly on an idle engine.  A call that
\* raises before it changes anything (no population yet, no scores yet, no
\* pElite yet) is not a step.

InitializePopulation ==
    /\ CallStart("initializePopulation")
    /\ clearRunState
    /\ UNCHANGED << engineConfig, evolveArgs, generation, epc, gpc, genLocals, calls >>

\* initializePopulation, lines 61-63: popSize random chromosomes are appended;
\* chroms[i] is the i-th result of make_random_chromosome.
Populate ==
    /\ ipc = "populate"
    /\ \E chroms \in [ 1..popSize -> Chromosomes ] :
          Store([ i \in 1..popSize |-> i ], newPop, bestEver, parent1, parent2, child1,
                child2, result, [ i \in 1..popSize |-> chroms[i] ])
    /\ ipc' = "none"
    /\ lastOp' = "initializePopulation"
    /\ epc' = IF epc = "initialize" THEN "evaluate" ELSE epc
    /\ UNCHANGED << engineConfig, evolveArgs, generation, evalState, gpc, crossPoint, spins,
                    mutated, err, calls, lastCall, evolveBook >>

EvaluatePopulation ==
    /\ Call("evaluatePopulation")
    /\ population # <<>>
    /\ Len(bestList) < MaxEvals
    /\ evaluatePopulation
    /\ UNCHANGED << engineConfig, evolveArgs, generation, epc, ipc, gpc, crossPoint, spins,
                    mutated >>

\* A direct evaluatePopulation call that raises.
EvaluatePopulationRaise ==
    /\ CallEnter("evaluatePopulation") /\ calls' = calls + 1
    /\ population # <<>>
    /\ evaluateRaises
    /\ err' = "TypeError"
    /\ UNCHANGED << engineConfig, evolveArgs, generation, epc, ipc, gpc, crossPoint, spins,
                    mutated >>

OneGeneration ==
    /\ Call("oneGeneration")
    /\ population # <<>> /\ scores # <<>> /\ pElite # NoneNum
    /\ Sortable(scores)
    /\ generation < MaxGenArg
    /\ elitism
    /\ UNCHANGED << engineConfig, lastOp, evolveArgs, generation, evalState, epc, ipc, crossPoint, spins,
                    mutated, population, bestEver, parent1, parent2, child1, child2, heap >>

\* Reset made to clear the statistics histories as well.
ResetClearing ==
    /\ CallStart("reset")
    /\ generation' = 0
    /\ bestList' = <<>> /\ avgList' = <<>>
    /\ UNCHANGED << engineConfig, lastOp, evolveArgs, scores, totalFitness, bestEverScore,
                    maxObserved, epc, ipc, gpc, genLocals, calls, population, bestEver, heap >>

\* reset() only assigns the counter.
Reset ==
    /\ CallStart("reset")
    /\ generation' = 0
    /\ UNCHANGED << engineConfig, lastOp, evolveArgs, evalState, epc, ipc, gpc, genLocals, calls,
                    population, bestEver, heap >>

----------------------------------------------------------------------------
Evolve == \E mg \in 0..MaxGenArg, pc \in Probs, pm \in Probs, pe \in Probs :
              EvolveCall(mg, pc, pm, pe)

Next ==
    \/ Evolve
    \/ EvolveEvaluate
    \/ EvolveEvaluateRaise
    \/ EvolveStep
    \/ EvolveStepRaise
    \/ EvolveReturn
    \/ GenSelect
    \/ GenSelectRaise
    \/ GenCrossover
    \/ GenCrossoverRaise
    \/ GenMutation1
    \/ GenMutation2
    \/ GenAppend
    \/ GenReplace
    \/ InitializePopulation
    \/ Populate
    \/ EvaluatePopulation
    \/ EvaluatePopulationRaise
    \/ OneGeneration
    \/ Reset

Spec == Init /\ [][Next]_vars

\* The engine driven by evolve and reset calls only.  EvolveStepRaise and
\* GenSelectRaise need a direct initializePopulation or oneGeneration call
\* before the evolve call and cannot happen here.
NextEvolveReset ==
    \/ Evolve
    \/ EvolveEvaluate
    \/ EvolveEvaluateRaise
    \/ EvolveStep
    \/ EvolveReturn
    \/ GenSelect
    \/ GenCrossover
    \/ GenCrossoverRaise
    \/ GenMutation1
    \/ GenMutation2
    \/ GenAppend
    \/ GenReplace
    \/ Populate
    \/ Reset

SpecEvolveReset == Init /\ [][NextEvolveReset]_vars

----------------------------------------------------------------------------
\* Properties.

Max(a, b) == IF a >= b THEN a ELSE b

\* The value of the best-ever record, <<>> when it is None.
BestEverValue == IF bestEver = NoneRef THEN <<>> ELSE heap[bestEver]

\* The chromosomes of a list of references, by value.
Values(h, refList) == [ i \in 1..Len(refList) |-> h[refList[i]] ]

\* The step is the entry of a public call.
EvolveEntry == Idle /\ lastCall' = "evolve" /\ epc' # "none"
EvaluateEntry == Idle /\ lastCall' = "evaluatePopulation" /\ calls' = calls + 1

\* C1: once a population exists it holds exactly popSize chromosomes after
\* initializePopulation and after every oneGeneration, and the score vector
\* holds exactly popSize scores after every evaluatePopulation.
PopulationSizeKept ==
    /\ (ipc = "none" /\ population # <<>>) => Len(population) = popSize
    /\ scores # <<>> => Len(scores) = popSize

\* C1 witness: evolve has just finished a oneGeneration in which one elite was
\* kept and the two children overshot popSize = 2 by one.
PopulationSizeWitness ==
    /\ epc = "evaluate" /\ transitions >= 1
    /\ popSize = 2 /\ EliteSize(pElite, popSize) = 1
    /\ Len(population) = popSize

\* C2 (as claimed): when oneGeneration replaces the population, each of the
\* floor(pElite * popSize) first chromosomes of the ranking is, by value, in the
\* new population.
ElitesSurvive ==
    [][ (gpc = "while" /\ gpc' = "none")
        => \A r \in 1..EliteSize(pElite, popSize) :
              \E j \in 1..Len(population') :
                  heap'[population'[j]] = heap[population[Fittest(scores)[r]]] ]_vars

\* C3: the best-ever history never decreases, and a step changes the best-ever
\* record only when it is initializePopulation's reset or an evaluation whose
\* maximum score is strictly higher than the recorded one.
BestListSorted == \A g \in 1..(Len(bestList) - 1) : bestList[g] <= bestList[g + 1]
BestEverMonotone ==
    /\ []BestListSorted
    /\ [][ (bestEverScore' # bestEverScore \/ BestEverValue' # BestEverValue)
           => \/ ipc' = "populate"
              \/ /\ scores' # <<>>
                 /\ MaxSeq(scores') > bestEverScore
                 /\ bestEverScore' = MaxSeq(scores')
                 /\ Fitness(fitId, BestEverValue') = bestEverScore' ]_vars

\* C3 witness: a later evaluation has raised the best-ever fitness.
BestEverRaisedWitness ==
    /\ Len(bestList) >= 2
    /\ bestList[1] < bestList[Len(bestList)]
    /\ generation >= 1

\* What a second evolve call keeps when it does not initialize.
RunKept ==
    /\ epc' = "while"
    /\ generation' = generation
    /\ Values(heap', population') = Values(heap, population)
    /\ BestEverValue' = BestEverValue
    /\ bestEverScore' = bestEverScore
    /\ bestList' = bestList
    /\ avgList' = avgList

\* C4 (as claimed): an evolve call that follows an evolve call, with no call in
\* between, never initializes.
SecondEvolveNeverInitializes ==
    [][ (EvolveEntry /\ lastCall = "evolve") => RunKept ]_vars

\* C4 (amended): the evolve call that follows an evolve call keeps the run when
\* the generation counter is positive at its entry, and initializes when the
\* counter is still 0.
SecondEvolveKeepsStartedRun ==
    [][ (EvolveEntry /\ lastCall = "evolve")
        => /\ generation > 0 => RunKept
           /\ generation = 0 => (epc' = "initialize" /\ population' = <<>>
                                 /\ bestList' = <<>> /\ avgList' = <<>>) ]_vars

\* C4 witness: the second of two evolve calls is at its loop test, entered with
\* a positive generation counter and nothing initialized or evaluated since the
\* first call.
SecondEvolveWitness ==
    /\ epc = "while" /\ calls = 2 /\ g0 > 0 /\ transitions = 0
    /\ lastOp = "evaluatePopulation" /\ Len(bestList) = g0 + 1

\* C5 (as claimed): what evolve returns is a chromosome whose fitness is the
\* highest evaluated since the population was initialized, equal to
\* bestEverScore and to the last entry of bestList.
EvolveReturnsBest ==
    (Idle /\ lastCall = "evolve" /\ err = "none")
    => /\ result # NoneRef
       /\ Fitness(fitId, heap[result]) = maxObserved
       /\ bestEverScore = maxObserved
       /\ bestList[Len(bestList)] = bestEverScore

\* C6 (as claimed): an evolve call in which isDone() was never true ends after
\* exactly max(0, maxGen - g0) generation transitions, each of which raised the
\* counter by one.
EvolveTransitionCount ==
    (Idle /\ lastCall = "evolve" /\ ~doneSeen)
    => /\ transitions = Max(0, maxGen - g0)
       /\ generation = g0 + transitions

\* C7 (as claimed): with pCrossover = 1 the crossover call returns
\* a[:k] + b[k:] and b[:k] + a[k:] for some k in 1..length-1.
CrossoverAlwaysSplits ==
    [][ (gpc = "crossover" /\ pCrossover = ProbDen)
        => /\ gpc' = "mutation1"
           /\ \E k \in 1..(length - 1) :
                 /\ heap'[child1'] = Child1(heap[parent1], heap[parent2], k)
                 /\ heap'[child2'] = Child2(heap[parent1], heap[parent2], k) ]_vars

\* C8: with pCrossover = 0 the crossover call returns the two parents
\* themselves, with the genes they had.
NoCrossoverReturnsParents ==
    [][ (gpc = "crossover" /\ pCrossover = 0)
        => /\ gpc' = "mutation1"
           /\ child1' = parent1' /\ child2' = parent2'
           /\ heap'[child1'] = heap[parent1]
           /\ heap'[child2'] = heap[parent2] ]_vars

\* C8 witness: crossover has returned under pCrossover = 0, for two parents
\* of different genes.
NoCrossoverWitness ==
    /\ gpc = "mutation1" /\ pCrossover = 0 /\ crossPoint = 0
    /\ child1 = parent1 /\ child2 = parent2
    /\ heap[child1] # heap[child2]

\* C9: with pMutation = 0 a mutation call changes no gene of any chromosome
\* and calls mutate_gene at no position.
NoMutationLeavesChromosome ==
    [][ (gpc \in {"mutation1", "mutation2"} /\ pMutation = 0)
        => /\ heap'[child1'] = heap[child1]
           /\ heap'[child2'] = heap[child2]
           /\ mutated' = {} ]_vars

\* C9 witness: both mutation calls of a pair have returned under pMutation = 0.
NoMutationWitness ==
    /\ gpc = "append" /\ pMutation = 0 /\ length = MaxLength
    /\ mutated = {} /\ heap[child1] # heap[child2]

\* C10: an evaluatePopulation call made when the last operation on the
\* population was an evaluatePopulation leaves the scores, the population and
\* the best-ever record as they were.
EvaluateTwiceSame ==
    [][ (EvaluateEntry /\ lastOp = "evaluatePopulation")
        => /\ scores' = scores
           /\ Values(heap', population') = Values(heap, population)
           /\ BestEverValue' = BestEverValue
           /\ bestEverScore' = bestEverScore ]_vars

\* C10 witness: two evaluatePopulation calls in a row on a population that
\* has a best-ever record.
EvaluateTwiceWitness ==
    /\ Idle /\ lastCall = "evaluatePopulation" /\ calls = 2
    /\ pElite = NoneNum /\ Len(bestList) = 2 /\ bestEver # NoneRef

\* The step is the entry of a reset() call.
ResetEntry == Idle /\ lastCall' = "reset"

\* C11: reset() sets the generation counter to 0 and leaves the population,
\* the scores, the best-ever record and both histories as they were; the evolve
\* call that follows it clears them all, and builds a new population before it
\* evaluates.
ResetOnlyCounter ==
    /\ [][ ResetEntry
           => /\ generation' = 0
              /\ Values(heap', population') = Values(heap, population)
              /\ BestEverValue' = BestEverValue
              /\ UNCHANGED << scores, totalFitness, bestEverScore, bestList, avgList,
                              engineConfig, evolveArgs >> ]_vars
    /\ [][ (EvolveEntry /\ lastCall = "reset")
           => /\ epc' = "initialize"
              /\ population' = <<>> /\ scores' = <<>>
              /\ bestEver' = NoneRef /\ bestEverScore' = 0
              /\ bestList' = <<>> /\ avgList' = <<>> ]_vars
    /\ [][ epc = "initialize"
           => /\ epc' = "evaluate"
              /\ Len(population') = popSize
              /\ bestList' = <<>> /\ avgList' = <<>> ]_vars

\* C11 witness: reset() has returned on an engine that has evolved: the
\* counter is 0 and the history of two evaluations and the best-ever record
\* are still there.
ResetWitness ==
    /\ Idle /\ lastCall = "reset" /\ generation = 0
    /\ Len(bestList) = 2 /\ Len(avgList) = 2
    /\ bestEver # NoneRef /\ Len(population) = popSize

\* A capability of the subclass is the base method.
Unimplemented == fitId = "none" \/ geneId = "none"

\* C12 (as claimed): an evolve call on an engine whose fitness() or
\* make_random_gene() is the base method builds no population, makes no
\* generation transition and ends with an exception.
UnimplementedAborts ==
    (lastCall = "evolve" /\ Unimplemented)
    => /\ epc \in {"none", "initialize"}
       /\ transitions = 0
       /\ Idle => err # "none"

\* The sum of the first i scores.
CumulativeScore(sc, i) == SumSeq(SubSeq(sc, 1, i))

\* Parent p is a list of its own, equal by value to population[i].
CopyOf(p, i) ==
    /\ \A k \in 1..Len(population) : population[k] # p
    /\ heap[p] = heap[population[i]]

\* selection() returned p for the drawn value spin: p is a copy of the first
\* chromosome whose cumulative score exceeds spin.
FirstExceeding(p, spin) ==
    \E i \in 1..popSize :
        /\ CumulativeScore(scores, i) > spin
        /\ \A j \in 1..(i - 1) : CumulativeScore(scores, j) <= spin
        /\ CopyOf(p, i)

\* C13: with a positive total fitness, each of the two selection() calls of a
\* pair returns a copy of population[i] for the smallest i whose cumulative
\* score exceeds the value the call drew.
SelectionPicksFirstExceeding ==
    (gpc = "crossover" /\ totalFitness > 0)
    => /\ spins[1] \in 0..(totalFitness - 1) /\ spins[2] \in 0..(totalFitness - 1)
       /\ FirstExceeding(parent1, spins[1])
       /\ FirstExceeding(parent2, spins[2])

\* C13 witness: two selections from a population of two with the lowest and
\* the highest draw have returned different chromosomes.
SelectionWitness ==
    /\ gpc = "crossover" /\ totalFitness > 0 /\ popSize = 2
    /\ scores[1] > 0 /\ scores[2] > 0
    /\ spins = << 0, totalFitness - 1 >>
    /\ heap[parent1] # heap[parent2]

\* C14 (as claimed): with a total fitness of 0 each selection() returns a copy
\* of the last chromosome, and no oneGeneration or evolve call made on such
\* scores ends with an exception.
ZeroTotalCompletes ==
    /\ (gpc = "crossover" /\ totalFitness = 0)
       => CopyOf(parent1, popSize) /\ CopyOf(parent2, popSize)
    /\ (totalFitness = 0 /\ lastCall \in {"evolve", "oneGeneration"}) => err = "none"

\* C19: with a positive total fitness no selection() call returns a chromosome
\* whose score is 0.
SelectionSkipsZeroScores ==
    (gpc = "crossover" /\ totalFitness > 0)
    => /\ Fitness(fitId, heap[parent1]) > 0
       /\ Fitness(fitId, heap[parent2]) > 0

\* C19 witness: the last chromosome scores 0, and the selection with the
\* highest draw has not returned it.
SelectionSkipsWitness ==
    /\ gpc = "crossover" /\ totalFitness > 0 /\ popSize = 2
    /\ scores[popSize] = 0
    /\ spins[2] = totalFitness - 1
    /\ Fitness(fitId, heap[parent2]) > 0

\* Chromosome new is chromosome old with the positions of set chosen, and no
\* other, holding a different gene.
MutatedAt(old, new, chosen) ==
    \A i \in 1..Len(old) :
        /\ i \in chosen => new[i] # old[i]
        /\ i \notin chosen => new[i] = old[i]

\* C15: when a mutation call returns, every position at which it called
\* mutate_gene holds a gene different from the one it held before the call, and
\* every other position holds the gene it held.
MutationDiffers ==
    [][ /\ gpc = "mutation1" => MutatedAt(heap[child1], heap'[child1'], mutated')
        /\ gpc = "mutation2" => MutatedAt(heap[child2], heap'[child2'], mutated') ]_vars

\* C15 witness: a mutation call on a chromosome of two genes has returned with
\* the first position mutated and the second not.
MutationDiffersWitness ==
    /\ gpc = "mutation2" /\ length = 2 /\ mutated = {1}
    /\ pMutation > 0 /\ pMutation < ProbDen

\* C16 (as claimed): the new population that oneGeneration is about to install
\* (newPop is full and needs no size correction) shares no object with the
\* prior population, and the best-ever record is an object that neither
\* population holds.
NewPopulationIsCopies ==
    /\ (gpc = "while" /\ Len(newPop) = popSize)
       => \A j \in 1..Len(newPop) : \A i \in 1..Len(population) : newPop[j] # population[i]
    /\ bestEver # NoneRef
       => /\ \A i \in 1..Len(population) : population[i] # bestEver
          /\ \A j \in 1..Len(newPop) : newPop[j] # bestEver

\* C17: a mutation call of oneGeneration changes the value of no chromosome of
\* the prior population, of no chromosome already in newPop, of the other
\* child and of the best-ever record.
MutationFrame ==
    [][ (gpc = "mutation1" \/ gpc = "mutation2")
        => /\ Values(heap', population') = Values(heap, population)
           /\ Values(heap', newPop') = Values(heap, newPop)
           /\ BestEverValue' = BestEverValue
           /\ gpc = "mutation1" => heap'[child2'] = heap[child2]
           /\ gpc = "mutation2" => heap'[child1'] = heap[child1] ]_vars

\* C17 witness: crossover returned the parents themselves, an elite is in
\* newPop, a best-ever record exists, and the first mutation call has changed
\* its child.
MutationFrameWitness ==
    /\ gpc = "mutation2" /\ crossPoint = 0 /\ mutated # {}
    /\ newPop # <<>> /\ bestEver # NoneRef
    /\ heap[child1] # heap[child2]

\* C18: under evolve and reset calls only, when an evolve call has returned
\* the two histories have the same length, generation + 1.
HistoryLengths ==
    (Idle /\ lastCall = "evolve" /\ err = "none")
    => /\ Len(bestList) = Len(avgList)
       /\ Len(bestList) = generation + 1

\* C18 witness: the second of two evolve calls has returned after at least one
\* generation transition.
HistoryLengthsWitness ==
    /\ Idle /\ lastCall = "evolve" /\ err = "none"
    /\ calls = 2 /\ transitions >= 1
    /\ Len(bestList) = generation + 1

====
